---- MODULE Spec2Model ----
(***************************************************************************)
(* Model of the retrieval-and-answering pipeline:                          *)
(*   scripts/utils.py          assign_topic, get_vector_store_by_*         *)
(*   scripts/preprocessing.py  DocumentPreprocessor (ingestion)            *)
(*   scripts/rag_pipeline.py   RAGPipeline.answer_question                 *)
(*   scripts/config.py         get_llm, instructions                       *)
(*                                                                         *)
(* Python strings are sequences of one-character strings, so that lower(), *)
(* strip(), endswith() and os.path.splitext() are computed, not assumed.   *)
(* A Python value that may be None is a record [isNone, s].                *)
(***************************************************************************)
EXTENDS Integers, Sequences, FiniteSets, TLC

\* ------------------------------------------------------------------------
\* Python string primitives
\* ------------------------------------------------------------------------
UpperSeq == <<"A","B","C","D","E","F","G","H","I","J","K","L","M",
              "N","O","P","Q","R","S","T","U","V","W","X","Y","Z">>

LowerSeq == <<"a","b","c","d","e","f","g","h","i","j","k","l","m",
              "n","o","p","q","r","s","t","u","v","w","x","y","z">>

Whitespace == {" ", "\n", "\t"}

LowerChar(c) ==
    IF \E i \in 1..Len(UpperSeq) : UpperSeq[i] = c
    THEN LowerSeq[CHOOSE i \in 1..Len(UpperSeq) : UpperSeq[i] = c]
    ELSE c

\* str.lower()
Lower(s) == [i \in 1..Len(s) |-> LowerChar(s[i])]

\* str.strip(): drop leading and trailing whitespace
Strip(s) ==
    LET keep == {i \in 1..Len(s) : s[i] \notin Whitespace}
    IN  IF keep = {} THEN <<>>
        ELSE LET lo == CHOOSE i \in keep : \A j \in keep : i <= j
                 hi == CHOOSE i \in keep : \A j \in keep : j <= i
             IN  SubSeq(s, lo, hi)

\* str.endswith(suffix)
EndsWith(s, suffix) ==
    /\ Len(suffix) <= Len(s)
    /\ SubSeq(s, Len(s) - Len(suffix) + 1, Len(s)) = suffix

\* str.rfind(c) with 1-based positions, 0 when absent
RFind(s, c) ==
    LET hits == {i \in 1..Len(s) : s[i] = c}
    IN  IF hits = {} THEN 0 ELSE CHOOSE i \in hits : \A j \in hits : j <= i

\* os.path.splitext(p)[1]: the text from the last dot of the last path
\* component, unless only dots precede that dot in the component
SplitextExt(p) ==
    LET sepIndex == RFind(p, "/")
        dotIndex == RFind(p, ".")
    IN  IF /\ dotIndex > sepIndex
           /\ \E i \in (sepIndex + 1)..(dotIndex - 1) : p[i] # "."
        THEN SubSeq(p, dotIndex, Len(p))
        ELSE <<>>

\* os.path.join(folder, filename) for a relative filename
PathJoin(folder, filename) == folder \o <<"/">> \o filename

\* os.path.basename(path)
Basename(path) == SubSeq(path, RFind(path, "/") + 1, Len(path))

\* None and str values
None == [isNone |-> TRUE, s |-> <<>>]

Str(s) == [isNone |-> FALSE, s |-> s]

\* Python truthiness of an Optional[str]: None and "" are falsy
Truthy(v) == ~v.isNone /\ v.s # <<>>

\* ------------------------------------------------------------------------
\* String literals of the program
\* ------------------------------------------------------------------------
ExtPdf == <<".","p","d","f">>

ExtTxt == <<".","t","x","t">>

ExtHtml == <<".","h","t","m","l">>

ExtJson == <<".","j","s","o","n">>

Technology == <<"T","e","c","h","n","o","l","o","g","y">>

People == <<"P","e","o","p","l","e">>

Science == <<"S","c","i","e","n","c","e">>

Literature == <<"L","i","t","e","r","a","t","u","r","e">>

Other == <<"O","t","h","e","r">>

Factual == <<"F","a","c","t","u","a","l">>

Interpretive == <<"I","n","t","e","r","p","r","e","t","i","v","e">>

DOCUMENTS_FOLDER == <<".","/","d","o","c","u","m","e","n","t","s">>

\* ------------------------------------------------------------------------
\* scripts/utils.py
\* ------------------------------------------------------------------------
assign_topic(path) ==
    IF EndsWith(path, ExtPdf) THEN Technology
    ELSE IF EndsWith(path, ExtTxt) THEN People
    ELSE IF EndsWith(path, ExtHtml) THEN Science
    ELSE IF EndsWith(path, ExtJson) THEN Literature
    ELSE Other

get_vector_store_by_filename(fname) ==
    IF Lower(SplitextExt(fname)) = ExtPdf THEN "pdf_store" ELSE "nonpdf_store"

\* variant: the Technology branch is missing
get_vector_store_by_topic_NoPdf(t) == "nonpdf_store"

get_vector_store_by_topic(t) ==
    IF Lower(t) = <<"t","e","c","h","n","o","l","o","g","y">>
    THEN "pdf_store" ELSE "nonpdf_store"

\* ------------------------------------------------------------------------
\* Bounds and input sets
\* ------------------------------------------------------------------------
MaxFolder == 2      \* files in the documents folder

MaxRuns == 2        \* runs of load_or_build_vectorstores

MaxLlmCalls == 3    \* calls of get_llm

MaxK == 2           \* largest k passed to answer_question

MaxCalls == 2       \* answer_question calls

\* Distances are in hundredths: 50 stands for 0.5
similarity_threshold == 50

Scores == {30, 50, 51}

DocIds == {"d1", "d2"}

FilenameArgs ==
    { None,
      Str(<<"a",".","p","d","f">>),
      Str(<<"A",".","P","D","F">>),
      Str(<<"b",".","t","x","t">>) }

TopicArgs ==
    { None,
      Str(Other),
      Str(<<"o","t","h","e","r">>),
      Str(Technology),
      Str(<<"t","e","c","h","n","o","l","o","g","y">>),
      Str(People) }

QuestionTypeArgs ==
    { None,
      Str(Factual),
      Str(Interpretive),
      Str(<<"f","a","c","t","u","a","l">>) }

\* raw texts the question-type classifier chain may return
QuestionClassifierOutputs ==
    { Factual,
      <<" ">> \o Factual \o <<"\n">>,
      Interpretive,
      <<"M","a","y","b","e">> }

\* raw texts the topic classifier chain may return
TopicClassifierOutputs ==
    { Other,
      <<" ","o","t","h","e","r","\n">>,
      Technology,
      People,
      <<"P","o","e","t","r","y">>,
      <<"\n">> }

\* texts the generative model may return for the final answer
Answers == {"generated answer"}

FileNames ==
    { <<"a",".","p","d","f">>,
      <<".","p","d","f">>,
      <<"b",".","t","x","t">>,
      <<"c",".","h","t","m","l">>,
      <<"d","a","t","a",".","j","s","o","n">>,
      <<"x",".","P","D","F">>,
      <<"n",".","m","d">> }

Folders == {F \in SUBSET FileNames : Cardinality(F) <= MaxFolder}

VARIABLES
    \* ingestion (DocumentPreprocessor.load_or_build_vectorstores)
    folder,          \* what os.listdir(self.folder_path) returned
    ipc,             \* "start" | "loop" | "ready" | "failed"
    pending,         \* files the for-loop has not reached yet
    pdf_chunks,      \* local list pdf_chunks (chunk metadata)
    non_pdf_chunks,  \* local list non_pdf_chunks
    store_pdf,       \* persisted collection "pdf-collection"
    store_nonpdf,    \* persisted collection "nonpdf-collection"
    persisted,       \* both Chroma directories exist and are populated
    runs,
    \* config.py module state and the observed get_llm calls
    ollama_model,    \* _ollama_model: 0 is None, otherwise the instance
    constructions,   \* OllamaLLM instances constructed so far
    llm_returns,     \* the value returned by each completed get_llm call
    \* RAGPipeline.answer_question: one call in progress at a time
    pc,              \* position in answer_question
    filename,        \* argument filename (never reassigned)
    arg_topic,       \* argument topic as passed
    arg_question_type, \* argument question_type as passed
    k,               \* argument k
    topic,           \* local topic (reassigned by classification)
    question_type,   \* local question_type (reassigned by classification)
    qc_outcome,      \* what question_classifier.invoke did in this call
    tc_outcome,      \* what topic_classifier.invoke did in this call
    vector_store,    \* local vector_store
    filter_by,       \* local filter_by
    queries,         \* similarity_search_with_score calls of this call
    scored_docs,     \* local scored_docs
    filtered,        \* the relevance filter has run in this call
    docs,            \* local docs
    instruction_text, \* local instruction_text
    synth_calls,     \* combine_documents_chain.run calls of this call
    llm_invocations, \* generative-model invocations of this call
    result,          \* the returned dict's "result"
    calls,           \* answer_question calls entered so far
    trace            \* collaborator invocations of this call, in order

ingestVars == <<folder, ipc, pending, pdf_chunks, non_pdf_chunks,
                store_pdf, store_nonpdf, persisted, runs>>

llmVars == <<ollama_model, constructions, llm_returns>>

pipeVars == <<pc, filename, arg_topic, arg_question_type, k, topic,
              question_type, qc_outcome, tc_outcome, vector_store, filter_by,
              queries, scored_docs, filtered, docs, instruction_text,
              synth_calls, llm_invocations, result, calls, trace>>

vars == <<ingestVars, llmVars, pipeVars>>

\* ------------------------------------------------------------------------
\* scripts/preprocessing.py
\* ------------------------------------------------------------------------
\* load_and_split_file: the suffixes for which a loader exists
SupportedPath(path) ==
    \/ EndsWith(path, ExtPdf)
    \/ EndsWith(path, ExtTxt)
    \/ EndsWith(path, ExtHtml)
    \/ EndsWith(path, ExtJson)

\* load_and_split_file: metadata written on every chunk of the file
ChunkOf(path) ==
    [source |-> Basename(path), topic |-> assign_topic(Basename(path))]

\* the branch of the loop that picks the chunk list
GoesToPdfList(fname) == EndsWith(Lower(fname), ExtPdf)

IngestInit ==
    /\ folder = {}
    /\ ipc = "start"
    /\ pending = {}
    /\ pdf_chunks = {}
    /\ non_pdf_chunks = {}
    /\ store_pdf = {}
    /\ store_nonpdf = {}
    /\ persisted = FALSE
    /\ runs = 1

\* force_rebuild is False and both stores are on disk: load them
LoadFromDisk ==
    /\ ipc = "start"
    /\ \E force_rebuild \in BOOLEAN : ~force_rebuild /\ persisted
    /\ ipc' = "ready"
    /\ UNCHANGED <<folder, pending, pdf_chunks, non_pdf_chunks,
                   store_pdf, store_nonpdf, persisted, runs>>
    /\ UNCHANGED <<llmVars, pipeVars>>

\* otherwise rebuild: empty chunk lists, list the folder, start the loop
BeginBuild ==
    /\ ipc = "start"
    /\ \E force_rebuild \in BOOLEAN, listing \in Folders :
          /\ force_rebuild \/ ~persisted
          /\ ipc' = "loop"
          /\ folder' = listing
          /\ pending' = listing
          /\ pdf_chunks' = {}
          /\ non_pdf_chunks' = {}
    /\ UNCHANGED <<store_pdf, store_nonpdf, persisted, runs>>
    /\ UNCHANGED <<llmVars, pipeVars>>

\* one iteration of the loop: load_and_split_file, then extend one list.
\* An unsupported suffix raises ValueError, a loader may raise on a broken
\* file; neither is caught, so the build ends there.
IngestFile ==
    /\ ipc = "loop"
    /\ \E fname \in pending, loaderOk \in BOOLEAN :
          LET path == PathJoin(DOCUMENTS_FOLDER, fname)
          IN  IF SupportedPath(path) /\ loaderOk
              THEN /\ pending' = pending \ {fname}
                   /\ IF GoesToPdfList(fname)
                      THEN /\ pdf_chunks' = pdf_chunks \cup {ChunkOf(path)}
                           /\ UNCHANGED non_pdf_chunks
                      ELSE /\ non_pdf_chunks' = non_pdf_chunks \cup {ChunkOf(path)}
                           /\ UNCHANGED pdf_chunks
                   /\ UNCHANGED ipc
              ELSE /\ ipc' = "failed"
                   /\ UNCHANGED <<pending, pdf_chunks, non_pdf_chunks>>
    /\ UNCHANGED <<folder, store_pdf, store_nonpdf, persisted, runs>>
    /\ UNCHANGED <<llmVars, pipeVars>>

\* Chroma.from_documents for both lists: the chunks are added to the
\* persisted collections
FinishBuild ==
    /\ ipc = "loop"
    /\ pending = {}
    /\ store_pdf' = store_pdf \cup pdf_chunks
    /\ store_nonpdf' = store_nonpdf \cup non_pdf_chunks
    /\ persisted' = TRUE
    /\ ipc' = "ready"
    /\ UNCHANGED <<folder, pending, pdf_chunks, non_pdf_chunks, runs>>
    /\ UNCHANGED <<llmVars, pipeVars>>

\* the program is started again; what is on disk stays
Restart ==
    /\ ipc \in {"ready", "failed"}
    /\ runs < MaxRuns
    /\ runs' = runs + 1
    /\ ipc' = "start"
    /\ UNCHANGED <<folder, pending, pdf_chunks, non_pdf_chunks,
                   store_pdf, store_nonpdf, persisted>>
    /\ UNCHANGED <<llmVars, pipeVars>>

\* ------------------------------------------------------------------------
\* scripts/config.py: get_llm
\* ------------------------------------------------------------------------
LlmInit ==
    /\ ollama_model = 0
    /\ constructions = 0
    /\ llm_returns = <<>>

\* variant: the guard is missing and every call constructs a model
ModelIsNone_Always(m) == TRUE

\* the guard "if _ollama_model is None"
ModelIsNone(m) == m = 0

\* get_llm(): construct on first use, return the module-level instance.
\* Every OllamaLLM(...) call yields a new object, numbered in order.
GetLlm ==
    /\ Len(llm_returns) < MaxLlmCalls
    /\ IF ModelIsNone(ollama_model)
       THEN /\ constructions' = constructions + 1
            /\ ollama_model' = constructions + 1
       ELSE UNCHANGED <<ollama_model, constructions>>
    /\ llm_returns' = Append(llm_returns, ollama_model')
    /\ UNCHANGED <<ingestVars, pipeVars>>

\* ------------------------------------------------------------------------
\* scripts/config.py: instructions; scripts/rag_pipeline.py: fixed messages
\* ------------------------------------------------------------------------
instructions ==
    [key \in {Factual, Interpretive} |->
        IF key = Factual THEN "Factual instruction"
                         ELSE "Interpretive instruction"]

MsgOther == "Your question falls under the topic category 'Other', which is outside of the covered document topics."

MsgRetrievalError == "There was an error retrieving documents."

MsgNoDocs == "Sorry, I couldn't find any documents related to your question."

MsgUnable == "Sorry, I was unable to process your request."

NoResult == "<no result>"

NoInstruction == "<no instruction>"

NoFilter == [key |-> "none", value |-> <<>>]

NotCalled == [status |-> "notcalled", out |-> <<>>]

Raised == [status |-> "raised", out |-> <<>>]

Returned(raw) == [status |-> "returned", out |-> raw]

\* ------------------------------------------------------------------------
\* scripts/rag_pipeline.py: RAGPipeline.answer_question
\* ------------------------------------------------------------------------
\* variant: the fallback is the other key
QuestionTypeOnError_Factual == Factual

\* the value question_type takes when the classifier raises
QuestionTypeOnError == Interpretive

\* variant: the comparison without lower()
IsOtherTopic_NoLower(t) == Truthy(t) /\ t.s = <<"o","t","h","e","r">>

\* variant: the filename is not looked at
NeedsTopicClassification_TopicOnly(fname, t) == ~Truthy(t)

\* "if not filename and not topic"
NeedsTopicClassification(fname, t) == ~Truthy(fname) /\ ~Truthy(t)

\* "if topic and topic.lower() == 'other'"
IsOtherTopic(t) == Truthy(t) /\ Lower(t.s) = <<"o","t","h","e","r">>

\* variant: a given topic is looked at before the filename
RouteOf_TopicFirst(fname, t) ==
    IF Truthy(t)
    THEN [raised |-> FALSE,
          store  |-> get_vector_store_by_topic(t.s),
          filter |-> [key |-> "topic", value |-> t.s]]
    ELSE IF Truthy(fname)
    THEN [raised |-> FALSE,
          store  |-> get_vector_store_by_filename(fname.s),
          filter |-> [key |-> "source", value |-> fname.s]]
    ELSE IF t.isNone
    THEN [raised |-> TRUE, store |-> "none", filter |-> NoFilter]
    ELSE [raised |-> FALSE,
          store  |-> get_vector_store_by_topic(t.s),
          filter |-> NoFilter]

\* the if/else that chooses vector_store and filter_by;
\* get_vector_store_by_topic(None) raises AttributeError on topic.lower()
RouteOf(fname, t) ==
    IF Truthy(fname)
    THEN [raised |-> FALSE,
          store  |-> get_vector_store_by_filename(fname.s),
          filter |-> [key |-> "source", value |-> fname.s]]
    ELSE IF t.isNone
    THEN [raised |-> TRUE, store |-> "none", filter |-> NoFilter]
    ELSE [raised |-> FALSE,
          store  |-> get_vector_store_by_topic(t.s),
          filter |-> IF Truthy(t) THEN [key |-> "topic", value |-> t.s]
                                  ELSE NoFilter]

\* variant: an exclusive bound
Relevant_Strict(score) == score < similarity_threshold

\* "score <= similarity_threshold"
Relevant(score) == score <= similarity_threshold

\* "[doc for doc, score in scored_docs if score <= similarity_threshold]"
RelevantDocs(sd) ==
    LET kept == SelectSeq(sd, LAMBDA e : Relevant(e.score))
    IN  [i \in 1..Len(kept) |-> kept[i].doc]

\* variant: the emptiness check is missing
NoDocs_Never(ds) == FALSE

\* "if not docs"
NoDocs(ds) == ds = <<>>

\* "self.instructions.get(question_type, self.instructions['Interpretive'])"
instructions_get(key) ==
    IF key \in DOMAIN instructions THEN instructions[key]
                                   ELSE instructions[Interpretive]

\* what similarity_search_with_score may return: at most n scored chunks,
\* nearest first
ScoredDocLists(n) ==
    LET all == UNION {[1..m -> [doc : DocIds, score : Scores]] : m \in 0..n}
    IN  {sd \in all : \A i \in 1..(Len(sd) - 1) : sd[i].score <= sd[i+1].score}

PipeInit ==
    /\ pc = "idle"
    /\ filename = None
    /\ arg_topic = None
    /\ arg_question_type = None
    /\ k = 1
    /\ topic = None
    /\ question_type = None
    /\ qc_outcome = NotCalled
    /\ tc_outcome = NotCalled
    /\ vector_store = "none"
    /\ filter_by = NoFilter
    /\ queries = <<>>
    /\ scored_docs = <<>>
    /\ filtered = FALSE
    /\ docs = <<>>
    /\ instruction_text = NoInstruction
    /\ synth_calls = <<>>
    /\ llm_invocations = 0
    /\ result = NoResult
    /\ calls = 0
    /\ trace = <<>>

\* answer_question(query, filename, topic, question_type, k) is entered
Call ==
    /\ pc = "idle"
    /\ calls < MaxCalls
    /\ calls' = calls + 1
    /\ UNCHANGED trace
    /\ filename' \in FilenameArgs
    /\ arg_topic' \in TopicArgs
    /\ arg_question_type' \in QuestionTypeArgs
    /\ k' \in 1..MaxK
    /\ topic' = arg_topic'
    /\ question_type' = arg_question_type'
    /\ pc' = "classify_question"
    /\ UNCHANGED <<ingestVars, llmVars, qc_outcome, tc_outcome, vector_store,
                   filter_by, queries, scored_docs, filtered, docs,
                   instruction_text, synth_calls, llm_invocations, result>>

\* the call has returned its dict or raised: its frame is gone and main's
\* loop is back at collect_user_inputs
Return ==
    /\ pc \in {"done", "raised"}
    /\ pc' = "idle"
    /\ filename' = None
    /\ arg_topic' = None
    /\ arg_question_type' = None
    /\ k' = 1
    /\ topic' = None
    /\ question_type' = None
    /\ qc_outcome' = NotCalled
    /\ tc_outcome' = NotCalled
    /\ vector_store' = "none"
    /\ filter_by' = NoFilter
    /\ queries' = <<>>
    /\ scored_docs' = <<>>
    /\ filtered' = FALSE
    /\ docs' = <<>>
    /\ instruction_text' = NoInstruction
    /\ synth_calls' = <<>>
    /\ llm_invocations' = 0
    /\ result' = NoResult
    /\ trace' = <<>>
    /\ UNCHANGED <<ingestVars, llmVars, calls>>

\* lines 30-36: infer the question type when none was passed
ClassifyQuestionType ==
    /\ pc = "classify_question"
    /\ IF ~Truthy(question_type)
       THEN /\ llm_invocations' = llm_invocations + 1
            /\ trace' = Append(trace, "question_classifier")
            /\ \/ \E raw \in QuestionClassifierOutputs :
                    /\ qc_outcome' = Returned(raw)
                    /\ question_type' = Str(Strip(raw))
               \/ /\ qc_outcome' = Raised
                  /\ question_type' = Str(QuestionTypeOnError)
       ELSE UNCHANGED <<llm_invocations, qc_outcome, question_type, trace>>
    /\ pc' = "classify_topic"
    /\ UNCHANGED calls
    /\ UNCHANGED <<ingestVars, llmVars, filename, arg_topic,
                   arg_question_type, k, topic, tc_outcome, vector_store,
                   filter_by, queries, scored_docs, filtered, docs,
                   instruction_text, synth_calls, result>>

\* lines 40-46: infer the topic when neither filename nor topic was passed
ClassifyTopic ==
    /\ pc = "classify_topic"
    /\ IF NeedsTopicClassification(filename, topic)
       THEN /\ llm_invocations' = llm_invocations + 1
            /\ trace' = Append(trace, "topic_classifier")
            /\ \/ \E raw \in TopicClassifierOutputs :
                    /\ tc_outcome' = Returned(raw)
                    /\ topic' = Str(Strip(raw))
               \/ /\ tc_outcome' = Raised
                  /\ topic' = None
       ELSE UNCHANGED <<llm_invocations, tc_outcome, topic, trace>>
    /\ pc' = "other_check"
    /\ UNCHANGED calls
    /\ UNCHANGED <<ingestVars, llmVars, filename, arg_topic,
                   arg_question_type, k, question_type, qc_outcome,
                   vector_store, filter_by, queries, scored_docs, filtered,
                   docs, instruction_text, synth_calls, result>>

\* lines 50-52: early exit on the topic 'Other'
OtherCheck ==
    /\ pc = "other_check"
    /\ IF IsOtherTopic(topic)
       THEN /\ result' = MsgOther
            /\ pc' = "done"
       ELSE /\ pc' = "route"
            /\ UNCHANGED result
    /\ UNCHANGED <<calls, trace>>
    /\ UNCHANGED <<ingestVars, llmVars, filename, arg_topic,
                   arg_question_type, k, topic, question_type, qc_outcome,
                   tc_outcome, vector_store, filter_by, queries, scored_docs,
                   filtered, docs, instruction_text, synth_calls,
                   llm_invocations>>

\* lines 57-62: choose the store and the filter; the AttributeError of
\* get_vector_store_by_topic(None) is not caught and leaves the call
Route ==
    /\ pc = "route"
    /\ LET r == RouteOf(filename, topic)
       IN  IF r.raised
           THEN /\ pc' = "raised"
                /\ UNCHANGED <<vector_store, filter_by>>
           ELSE /\ pc' = "retrieve"
                /\ vector_store' = r.store
                /\ filter_by' = r.filter
    /\ UNCHANGED <<calls, trace>>
    /\ UNCHANGED <<ingestVars, llmVars, filename, arg_topic,
                   arg_question_type, k, topic, question_type, qc_outcome,
                   tc_outcome, queries, scored_docs, filtered, docs,
                   instruction_text, synth_calls, llm_invocations, result>>

\* the similarity_search_with_score call: "filter=filter_by if filter_by
\* else None", and whether it raised
QueryOf(raised) ==
    [store |-> vector_store, filter |-> filter_by, k |-> k, raised |-> raised]

\* variant: the error is swallowed and the call goes on with no chunks
OnRetrievalError_Continue == [pc |-> "filter", result |-> NoResult]

\* the except branch of the retrieval: return the fixed message
OnRetrievalError == [pc |-> "done", result |-> MsgRetrievalError]

\* lines 66-70: query the store; an error ends the call with a message
Retrieve ==
    /\ pc = "retrieve"
    /\ trace' = Append(trace, "store_query")
    /\ \/ \E sd \in ScoredDocLists(k) :
            /\ queries' = Append(queries, QueryOf(FALSE))
            /\ scored_docs' = sd
            /\ pc' = "filter"
            /\ UNCHANGED result
       \/ /\ queries' = Append(queries, QueryOf(TRUE))
          /\ result' = OnRetrievalError.result
          /\ pc' = OnRetrievalError.pc
          /\ UNCHANGED scored_docs
    /\ UNCHANGED calls
    /\ UNCHANGED <<ingestVars, llmVars, filename, arg_topic,
                   arg_question_type, k, topic, question_type, qc_outcome,
                   tc_outcome, vector_store, filter_by, filtered, docs,
                   instruction_text, synth_calls, llm_invocations>>

\* lines 74-83: keep the relevant chunks; none left ends the call
FilterDocs ==
    /\ pc = "filter"
    /\ filtered' = TRUE
    /\ docs' = RelevantDocs(scored_docs)
    /\ IF NoDocs(docs')
       THEN /\ result' = MsgNoDocs
            /\ pc' = "done"
       ELSE /\ pc' = "prompt"
            /\ UNCHANGED result
    /\ UNCHANGED <<calls, trace>>
    /\ UNCHANGED <<ingestVars, llmVars, filename, arg_topic,
                   arg_question_type, k, topic, question_type, qc_outcome,
                   tc_outcome, vector_store, filter_by, queries, scored_docs,
                   instruction_text, synth_calls, llm_invocations>>

\* lines 86-96: pick the instruction, build the prompt and the chain
PreparePrompt ==
    /\ pc = "prompt"
    /\ instruction_text' = instructions_get(question_type.s)
    /\ pc' = "synthesize"
    /\ UNCHANGED <<calls, trace>>
    /\ UNCHANGED <<ingestVars, llmVars, filename, arg_topic,
                   arg_question_type, k, topic, question_type, qc_outcome,
                   tc_outcome, vector_store, filter_by, queries, scored_docs,
                   filtered, docs, synth_calls, llm_invocations, result>>

\* lines 99-105: run the chain on the kept chunks
Synthesize ==
    /\ pc = "synthesize"
    /\ synth_calls' = Append(synth_calls,
                             [instruction |-> instruction_text, docs |-> docs])
    /\ llm_invocations' = llm_invocations + 1
    /\ trace' = Append(trace, "synthesis")
    /\ \/ result' \in Answers
       \/ result' = MsgUnable
    /\ pc' = "done"
    /\ UNCHANGED calls
    /\ UNCHANGED <<ingestVars, llmVars, filename, arg_topic,
                   arg_question_type, k, topic, question_type, qc_outcome,
                   tc_outcome, vector_store, filter_by, queries, scored_docs,
                   filtered, docs, instruction_text>>

Init == IngestInit /\ LlmInit /\ PipeInit

Next ==
    \/ Call
    \/ ClassifyQuestionType
    \/ ClassifyTopic
    \/ OtherCheck
    \/ Route
    \/ Retrieve
    \/ FilterDocs
    \/ PreparePrompt
    \/ Synthesize
    \/ Return

Spec == Init /\ [][Next]_vars

NextStartup ==
    \/ LoadFromDisk
    \/ BeginBuild
    \/ IngestFile
    \/ FinishBuild
    \/ Restart
    \/ GetLlm

SpecStartup == Init /\ [][NextStartup]_vars

\* ========================================================================
\* Properties
\* ========================================================================
OtherLower == <<"o","t","h","e","r">>

\* positions of answer_question after the routing step has run
PastRouting == {"retrieve", "filter", "prompt", "synthesize", "done", "raised"}

\* the topic the call works with once classification is over, from the
\* arguments and the classifier's outcome
ResolvedTopic ==
    IF Truthy(arg_topic) THEN arg_topic
    ELSE IF tc_outcome.status = "returned" THEN Str(Strip(tc_outcome.out))
    ELSE arg_topic

\* the question type the call works with once classification is over
ResolvedQuestionType ==
    IF Truthy(arg_question_type) THEN arg_question_type.s
    ELSE IF qc_outcome.status = "returned" THEN Strip(qc_outcome.out)
    ELSE Interpretive

\* the retrieved chunks at distance <= 0.5, in retrieval order
KeptIndexes == {i \in 1..Len(scored_docs) : scored_docs[i].score <= 50}

ExpectedDocs ==
    [j \in 1..Cardinality(KeptIndexes) |->
        scored_docs[CHOOSE i \in KeptIndexes :
                      Cardinality({h \in KeptIndexes : h <= i}) = j].doc]

\* C1: no exception crosses the answer_question boundary: a call never ends
\* by raising, and a call that has ended has returned a text.
C1_NoExceptionEscapes ==
    /\ pc # "raised"
    /\ pc = "done" => result # NoResult

\* C2: with neither filename nor topic and a raising topic classifier, the
\* call continues: routing selects the non-PDF (default) store with no
\* filter, and the store is queried with that empty filter.
C2_TopicClassifierFailureContinues ==
    (/\ ~Truthy(filename)
     /\ ~Truthy(arg_topic)
     /\ tc_outcome = Raised
     /\ pc \in PastRouting)
    => /\ pc # "raised"
       /\ vector_store = "nonpdf_store"
       /\ filter_by = NoFilter
       /\ pc \in {"filter", "prompt", "synthesize", "done"}
            => /\ Len(queries) = 1
               /\ queries[1].store = "nonpdf_store"
               /\ queries[1].filter = NoFilter

\* C3: a call whose resolved topic is Other (explicit or classified) returns
\* the out-of-domain message and performs neither a store query nor a
\* synthesis.
C3_OtherShortCircuits ==
    (/\ pc \in {"other_check", "route"} \cup PastRouting
     /\ ResolvedTopic = Str(Other))
    => /\ pc \in {"other_check", "done"}
       /\ queries = <<>>
       /\ synth_calls = <<>>
       /\ pc = "done" => result = MsgOther

C3_Witness ==
    /\ pc = "done"
    /\ tc_outcome = Returned(Other)
    /\ result = MsgOther

\* C4 as stated: every call with a filename, whatever the topic, queries the
\* partition of the filename's format class with the filter source == filename.
C4_FilenameAlwaysRouted ==
    (Truthy(filename) /\ pc = "done")
    => /\ Len(queries) = 1
       /\ queries[1].store = get_vector_store_by_filename(filename.s)
       /\ queries[1].filter = [key |-> "source", value |-> filename.s]

\* C4 amended: a call with a filename whose topic argument is not Other
\* (compared case-insensitively) queries exactly the partition of the
\* filename's format class, with filter source == filename, whatever the
\* topic is; with the topic argument Other the call returns the
\* out-of-domain message and queries no store.
C4_FilenamePrecedence ==
    (Truthy(filename) /\ pc \in PastRouting)
    => IF Truthy(arg_topic) /\ Lower(arg_topic.s) = OtherLower
       THEN /\ pc = "done"
            /\ result = MsgOther
            /\ queries = <<>>
       ELSE /\ vector_store = get_vector_store_by_filename(filename.s)
            /\ filter_by = [key |-> "source", value |-> filename.s]
            /\ pc # "retrieve"
                 => /\ Len(queries) = 1
                    /\ queries[1].store = get_vector_store_by_filename(filename.s)
                    /\ queries[1].filter = [key |-> "source", value |-> filename.s]

\* filename b.txt (non-PDF partition) with topic Technology (PDF partition)
C4_Witness ==
    /\ pc = "done"
    /\ filename = Str(<<"b",".","t","x","t">>)
    /\ arg_topic = Str(Technology)
    /\ Len(queries) = 1
    /\ queries[1].store = "nonpdf_store"

\* C5: the chunks kept by the relevance filter, and handed to synthesis, are
\* exactly the retrieved chunks at distance <= 0.5, in retrieval order.
C5_ThresholdInclusive ==
    filtered
    => /\ docs = ExpectedDocs
       /\ \A i \in 1..Len(synth_calls) : synth_calls[i].docs = ExpectedDocs

\* a chunk at exactly 0.5 was kept and one at 0.51 dropped
C5_Witness ==
    /\ pc = "done"
    /\ Len(synth_calls) = 1
    /\ Len(scored_docs) = 2
    /\ scored_docs[1].score = 50
    /\ scored_docs[2].score = 51
    /\ synth_calls[1].docs = <<scored_docs[1].doc>>

\* C6 as stated: when no retrieved chunk is within the threshold, the call
\* returns the "couldn't find any documents" message and the generative
\* model is not invoked at all during the call.
C6_NoModelInvocationAtAll ==
    (pc = "done" /\ filtered /\ KeptIndexes = {})
    => /\ result = MsgNoDocs
       /\ llm_invocations = 0

\* C6 amended: when no retrieved chunk is within the threshold, the call
\* returns the "couldn't find any documents" message and answer synthesis is
\* never invoked; the generative model is invoked in that call only by the
\* classifiers that ran before retrieval.
C6_NoSynthesisWithoutDocs ==
    (pc = "done" /\ filtered /\ KeptIndexes = {})
    => /\ result = MsgNoDocs
       /\ synth_calls = <<>>
       /\ instruction_text = NoInstruction
       /\ llm_invocations =
            (IF qc_outcome.status = "notcalled" THEN 0 ELSE 1)
            + (IF tc_outcome.status = "notcalled" THEN 0 ELSE 1)

C6_Witness ==
    /\ pc = "done"
    /\ filtered
    /\ Len(scored_docs) = 2
    /\ KeptIndexes = {}
    /\ result = MsgNoDocs
    /\ llm_invocations = 2

\* C7: when the store query raises, the call returns the "error retrieving
\* documents" message; neither the relevance filter nor synthesis runs.
C7_RetrievalErrorAborts ==
    (\E i \in 1..Len(queries) : queries[i].raised)
    => /\ pc = "done"
       /\ result = MsgRetrievalError
       /\ ~filtered
       /\ docs = <<>>
       /\ synth_calls = <<>>

C7_Witness ==
    /\ pc = "done"
    /\ Len(queries) = 1
    /\ queries[1].raised
    /\ result = MsgRetrievalError

\* C8: the instruction used for synthesis is the Factual one exactly when
\* the resolved question type is the key Factual, and the Interpretive one
\* in every other case.
C8_InstructionByQuestionType ==
    /\ pc = "synthesize" => instruction_text # NoInstruction
    /\ instruction_text # NoInstruction
         => /\ instruction_text = "Factual instruction"
                 <=> ResolvedQuestionType = Factual
            /\ instruction_text # "Factual instruction"
                 => instruction_text = "Interpretive instruction"
    /\ \A i \in 1..Len(synth_calls) :
         synth_calls[i].instruction = instruction_text

\* the question-type classifier raised and synthesis used Interpretive
C8_Witness ==
    /\ pc = "done"
    /\ qc_outcome = Raised
    /\ Len(synth_calls) = 1
    /\ synth_calls[1].instruction = "Interpretive instruction"

\* C9: get_llm constructs the model at most once, never before the first
\* call, and every call returns the same instance.
C9_LazySingleton ==
    /\ constructions <= 1
    /\ llm_returns = <<>> => constructions = 0 /\ ollama_model = 0
    /\ llm_returns # <<>> => constructions = 1
    /\ \A i \in 1..Len(llm_returns) :
         /\ llm_returns[i] # 0
         /\ llm_returns[i] = llm_returns[1]
         /\ llm_returns[i] = ollama_model

C9_Witness ==
    /\ Len(llm_returns) >= 2
    /\ constructions = 1

\* C10: for every ingested document, select-by-filename on its source name
\* and select-by-topic on its topic label return the store that holds its
\* chunks.
C10_RoutingAgreesWithIngestion ==
    /\ \A c \in store_pdf :
         /\ get_vector_store_by_filename(c.source) = "pdf_store"
         /\ get_vector_store_by_topic(c.topic) = "pdf_store"
    /\ \A c \in store_nonpdf :
         /\ get_vector_store_by_filename(c.source) = "nonpdf_store"
         /\ get_vector_store_by_topic(c.topic) = "nonpdf_store"

TechnologyLower == <<"t","e","c","h","n","o","l","o","g","y">>

\* C11 as stated: with no filename and a resolved topic that is not the
\* label Other, routing yields one store and the single filter
\* topic == resolved topic: the PDF store if the topic is the label
\* Technology, the non-PDF store for every other topic value.
C11_TopicRoutingExactLabels ==
    (/\ ~Truthy(filename)
     /\ Truthy(ResolvedTopic)
     /\ ResolvedTopic # Str(Other)
     /\ pc \in PastRouting)
    => /\ pc # "raised"
       /\ vector_store = IF ResolvedTopic = Str(Technology)
                         THEN "pdf_store" ELSE "nonpdf_store"
       /\ filter_by = [key |-> "topic", value |-> ResolvedTopic.s]

\* C11 amended: with no filename and a non-empty resolved topic that is not
\* Other under case-insensitive comparison, routing yields one store and the
\* single filter topic == resolved topic (as given): the PDF store if the
\* topic is Technology under case-insensitive comparison, the non-PDF store
\* for every other topic value; the store is queried with that filter.
C11_TopicRouting ==
    (/\ ~Truthy(filename)
     /\ Truthy(ResolvedTopic)
     /\ Lower(ResolvedTopic.s) # OtherLower
     /\ pc \in PastRouting)
    => LET store == IF Lower(ResolvedTopic.s) = TechnologyLower
                    THEN "pdf_store" ELSE "nonpdf_store"
           flt == [key |-> "topic", value |-> ResolvedTopic.s]
       IN  /\ pc # "raised"
           /\ vector_store = store
           /\ filter_by = flt
           /\ pc # "retrieve"
                => /\ Len(queries) = 1
                   /\ queries[1].store = store
                   /\ queries[1].filter = flt

\* the classifier returned Technology and the PDF store was queried with
\* the filter topic == Technology
C11_Witness ==
    /\ pc = "done"
    /\ ~Truthy(filename)
    /\ tc_outcome = Returned(Technology)
    /\ Len(queries) = 1
    /\ queries[1].store = "pdf_store"
    /\ queries[1].filter = [key |-> "topic", value |-> Technology]

\* how often a collaborator was invoked in the current call
CountOf(event) == Cardinality({i \in 1..Len(trace) : trace[i] = event})

\* C12: in one call the topic classifier runs at most once and only when
\* filename and topic are both absent, the question-type classifier runs at
\* most once and only when question_type is absent, both run before any
\* store query, and a supplied topic or question_type is never replaced.
C12_ClassifierDiscipline ==
    /\ CountOf("topic_classifier") <= 1
    /\ CountOf("topic_classifier") = 1
         => ~Truthy(filename) /\ ~Truthy(arg_topic)
    /\ CountOf("question_classifier") <= 1
    /\ CountOf("question_classifier") = 1 => ~Truthy(arg_question_type)
    /\ \A i \in 1..Len(trace) : \A j \in 1..Len(trace) :
         (/\ trace[i] = "store_query"
          /\ trace[j] \in {"topic_classifier", "question_classifier"})
         => j < i
    /\ (pc # "idle" /\ Truthy(arg_topic)) => topic = arg_topic
    /\ (pc # "idle" /\ Truthy(arg_question_type))
         => question_type = arg_question_type
    /\ tc_outcome.status # "notcalled" <=> CountOf("topic_classifier") = 1
    /\ qc_outcome.status # "notcalled" <=> CountOf("question_classifier") = 1

\* both classifiers ran, then the store was queried, then synthesis
C12_Witness ==
    /\ pc = "done"
    /\ trace = <<"question_classifier", "topic_classifier",
                 "store_query", "synthesis">>

====
